---- MODULE Spec2Model ----
(***************************************************************************)
(* ProfessorsService (src/src/professors/professors.service.ts) over a     *)
(* relational store of professors, their university / faculty join records *)
(* and their reviews.  findAll builds a Prisma "where" from the validated  *)
(* SearchProfessorDto, issues count, then findMany, and projects the rows; *)
(* findOne issues findUnique with the visible reviews and projects or      *)
(* throws NotFoundException.  The store is written only by outside writers.*)
(*                                                                         *)
(* An optional value is a sequence: <<>> is undefined, <<v>> is v.         *)
(* A string is a sequence of one-character strings.                        *)
(***************************************************************************)
EXTENDS Integers, Sequences, FiniteSets, TLC

VARIABLES
    professors,   \* the Professor table with its join records: a set of rows
    reviews,      \* the Review table: a set of rows
    pc,           \* position of the request in flight
    dto,          \* the SearchProfessorDto (findAll) or the id (findOne) in flight
    where,        \* findAll: the Prisma where built for this request
    skip,         \* findAll: the offset computed for this request
    total,        \* findAll: the result of professor.count
    response,     \* what the handler returned, or the exception it threw
    countWhere,   \* the where that professor.count received
    fetchWhere,   \* the where that professor.findMany received
    countStore,   \* the Professor table as professor.count read it
    fetchStore,   \* the Professor table as professor.findMany read it
    collected     \* the responses a paging client has received so far

vars == <<professors, reviews, pc, dto, where, skip, total, response,
          countWhere, fetchWhere, countStore, fetchStore, collected>>

----------------------------------------------------------------------------
(* Bounds of the model *)

MaxProf == 3
MaxReview == 2

ProfIds == 1..MaxProf
ReviewIds == 1..MaxReview

----------------------------------------------------------------------------
(* Strings *)

Math == <<"M", "a", "t", "h">>
Physics == <<"P", "h", "y", "s">>

\* String.prototype.toLowerCase on one character, as the store's
\* mode: 'insensitive' comparison folds it
LowerChar(c) ==
    CASE c = "M" -> "m"
      [] c = "P" -> "p"
      [] c = "A" -> "a"
      [] c = "H" -> "h"
      [] c = "T" -> "t"
      [] c = "Y" -> "y"
      [] c = "S" -> "s"
      [] c = "G" -> "g"
      [] OTHER -> c

Lower(s) == [i \in 1..Len(s) |-> LowerChar(s[i])]

\* contains: needle occurs in hay as a contiguous substring
Contains(hay, needle) ==
    \E i \in 1..(Len(hay) + 1) :
        /\ i + Len(needle) - 1 <= Len(hay)
        /\ SubSeq(hay, i, i + Len(needle) - 1) = needle

\* { contains: needle, mode: 'insensitive' } on an optional column:
\* a NULL column matches nothing
ContainsInsensitive(optHay, needle) ==
    /\ optHay # <<>>
    /\ Contains(Lower(optHay[1]), Lower(needle))

----------------------------------------------------------------------------
(* The University table: id -> optional department *)

UniversityIds == {1, 2}
FacultyIds == {1}

UniversityDepartment(u) ==
    CASE u = 1 -> <<Math>>
      [] u = 2 -> <<Physics>>
      [] OTHER -> <<>>

----------------------------------------------------------------------------
(* Rows and DTOs *)

Garcia == <<"G", "a", "r", "c">>

\* A Professor row with its ProfessorUniversity / ProfessorFaculty join
\* records (one per related id)
Professor(id, fullName, averageRating, reviewCount, unis, facs) ==
    [id |-> id, fullName |-> fullName, averageRating |-> averageRating,
     reviewCount |-> reviewCount, universities |-> unis, faculties |-> facs]

\* SearchProfessorDto as the ValidationPipe hands it to the controller
SearchProfessorDto(name, universityId, facultyId, department, minRating, maxRating, minReviews, page, limit) ==
    [name |-> name, universityId |-> universityId, facultyId |-> facultyId,
     department |-> department, minRating |-> minRating,
     maxRating |-> maxRating, minReviews |-> minReviews,
     page |-> page, limit |-> limit]

MaxRatingValue == 5
MaxLimit == 100
DefaultPage == 1
DefaultLimit == 20

\* The class-validator decorators of SearchProfessorDto
ValidDto(d) ==
    /\ d.minRating # <<>> => d.minRating[1] >= 0 /\ d.minRating[1] <= MaxRatingValue
    /\ d.maxRating # <<>> => d.maxRating[1] >= 0 /\ d.maxRating[1] <= MaxRatingValue
    /\ d.minReviews # <<>> => d.minReviews[1] >= 0
    /\ d.page # <<>> => d.page[1] >= 1
    /\ d.limit # <<>> => d.limit[1] >= 1 /\ d.limit[1] <= MaxLimit

----------------------------------------------------------------------------
(* findAll: the filter builder *)

\* JavaScript truthiness of an optional number: undefined and 0 are falsy
TruthyNumber(x) == x # <<>> /\ x[1] # 0

\* JavaScript truthiness of an optional string: undefined and "" are falsy
TruthyString(x) == x # <<>> /\ x[1] # <<>>

\* page = 1, limit = 20 in the destructuring
ParsedPage(d) == IF d.page = <<>> THEN DefaultPage ELSE d.page[1]
ParsedLimit(d) == IF d.limit = <<>> THEN DefaultLimit ELSE d.limit[1]

ParsedUniversityId(d) == IF TruthyNumber(d.universityId) THEN d.universityId ELSE <<>>
ParsedFacultyId(d) == IF TruthyNumber(d.facultyId) THEN d.facultyId ELSE <<>>

\* { some: { universityId } }
UniversityFilter(d) ==
    IF TruthyNumber(ParsedUniversityId(d))
    THEN <<[universityId |-> ParsedUniversityId(d), department |-> <<>>]>>
    ELSE <<>>

\* { some: { facultyId } }
FacultyFilter(d) ==
    IF TruthyNumber(ParsedFacultyId(d))
    THEN <<[facultyId |-> ParsedFacultyId(d)]>>
    ELSE <<>>

\* { some: { university: { department: { contains, mode: 'insensitive' } } } }
DepartmentFilter(d) ==
    IF TruthyString(d.department)
    THEN <<[universityId |-> <<>>, department |-> d.department]>>
    ELSE <<>>

\* where.universities after the two assignments: the department filter,
\* assigned last, replaces the university filter
WhereUniversities(d) ==
    IF DepartmentFilter(d) # <<>> THEN DepartmentFilter(d)
    ELSE IF UniversityFilter(d) # <<>> THEN UniversityFilter(d)
    ELSE <<>>

\* the bounds tested for truthiness, as the ids are: a bound of 0 is lost
WhereAverageRatingTruthy(d) ==
    IF TruthyNumber(d.minRating) \/ TruthyNumber(d.maxRating)
    THEN <<[gte |-> IF TruthyNumber(d.minRating) THEN d.minRating ELSE <<>>,
            lte |-> IF TruthyNumber(d.maxRating) THEN d.maxRating ELSE <<>>]>>
    ELSE <<>>

WhereAverageRating(d) ==
    IF d.minRating # <<>> \/ d.maxRating # <<>>
    THEN <<[gte |-> d.minRating, lte |-> d.maxRating]>>
    ELSE <<>>

WhereReviewCount(d) ==
    IF d.minReviews # <<>> THEN <<[gte |-> d.minReviews]>> ELSE <<>>

WhereFullName(d) ==
    IF TruthyString(d.name) THEN <<[contains |-> d.name[1]]>> ELSE <<>>

BuildWhere(d) ==
    [fullName |-> WhereFullName(d),
     averageRating |-> WhereAverageRating(d),
     reviewCount |-> WhereReviewCount(d),
     universities |-> WhereUniversities(d),
     faculties |-> FacultyFilter(d)]

\* the offset taken as page * limit
SkipOffByOne(d) == ParsedPage(d) * ParsedLimit(d)

\* const skip = (parsedPage - 1) * parsedLimit
Skip(d) == (ParsedPage(d) - 1) * ParsedLimit(d)

\* Math.floor in place of Math.ceil
LastPageFloor(n, lim) == n \div lim

\* Math.ceil(total / parsedLimit), parsedLimit >= 1
LastPage(n, lim) == IF n % lim = 0 THEN n \div lim ELSE (n \div lim) + 1

----------------------------------------------------------------------------
(* The store's evaluation of a where, of orderBy and of skip / take *)

\* one join record satisfies every condition of the "some" filter
SomeUniversity(u, some) ==
    /\ some.universityId # <<>> => u = some.universityId[1]
    /\ some.department # <<>> =>
           ContainsInsensitive(UniversityDepartment(u), some.department[1])

Matches(p, w) ==
    /\ w.fullName # <<>> =>
           ContainsInsensitive(<<p.fullName>>, w.fullName[1].contains)
    /\ w.averageRating # <<>> =>
           /\ w.averageRating[1].gte # <<>> =>
                  p.averageRating >= w.averageRating[1].gte[1]
           /\ w.averageRating[1].lte # <<>> =>
                  p.averageRating <= w.averageRating[1].lte[1]
    /\ w.reviewCount # <<>> => p.reviewCount >= w.reviewCount[1].gte[1]
    /\ w.universities # <<>> =>
           \E u \in p.universities : SomeUniversity(u, w.universities[1])
    /\ w.faculties # <<>> =>
           \E f \in p.faculties : f = w.faculties[1].facultyId[1]

Matching(table, w) == {p \in table : Matches(p, w)}

\* orderBy: { averageRating: 'asc' }
OrderedByRatingAsc(rows) ==
    {s \in [1..Cardinality(rows) -> rows] :
        /\ \A i, j \in 1..Cardinality(rows) : i # j => s[i] # s[j]
        /\ \A i, j \in 1..Cardinality(rows) :
               i < j => s[i].averageRating <= s[j].averageRating}

\* orderBy: { averageRating: 'desc' }: every order of the rows the store
\* may produce; rows of equal averageRating come in any order
OrderedByRatingDesc(rows) ==
    {s \in [1..Cardinality(rows) -> rows] :
        /\ \A i, j \in 1..Cardinality(rows) : i # j => s[i] # s[j]
        /\ \A i, j \in 1..Cardinality(rows) :
               i < j => s[i].averageRating >= s[j].averageRating}

Min(a, b) == IF a <= b THEN a ELSE b

\* skip / take on an ordered result
Window(s, sk, take) == SubSeq(s, sk + 1, Min(sk + take, Len(s)))

----------------------------------------------------------------------------
(* The relation projector *)

mapToProfessorResponse(p) ==
    [id |-> p.id, fullName |-> p.fullName, averageRating |-> p.averageRating,
     reviewCount |-> p.reviewCount, universities |-> p.universities,
     faculties |-> p.faculties]

\* courses and tags are projected like universities and faculties and are
\* left out; reviews arrive filtered and ordered by the store
mapToProfessorDetailResponse(p, revs) ==
    [id |-> p.id, fullName |-> p.fullName, averageRating |-> p.averageRating,
     reviewCount |-> p.reviewCount, universities |-> p.universities,
     faculties |-> p.faculties,
     reviews |-> [i \in 1..Len(revs) |->
                     [id |-> revs[i].id, createdAt |-> revs[i].createdAt]]]

\* the reviews relation loaded without its where
AllReviews(table, profId) == {r \in table : r.professorId = profId}

\* reviews: { where: { visibilityStatus: 'visible' } } of one professor
VisibleReviews(table, profId) ==
    {r \in table : r.professorId = profId /\ r.visibilityStatus = "visible"}

\* reviews: { orderBy: { createdAt: 'desc' } }: every order the store may
\* produce; reviews of equal createdAt come in any order
OrderedByCreatedAtDesc(rows) ==
    {s \in [1..Cardinality(rows) -> rows] :
        /\ \A i, j \in 1..Cardinality(rows) : i # j => s[i] # s[j]
        /\ \A i, j \in 1..Cardinality(rows) :
               i < j => s[i].createdAt >= s[j].createdAt}

----------------------------------------------------------------------------
(* State *)

NoResponse == [kind |-> "none"]
NoWhere == <<>>
NoTable == {}

Idle ==
    /\ pc = "idle"
    /\ dto = <<>>
    /\ where = NoWhere
    /\ skip = 0
    /\ total = 0
    /\ response = NoResponse
    /\ countWhere = NoWhere
    /\ fetchWhere = NoWhere
    /\ countStore = NoTable
    /\ fetchStore = NoTable

Init ==
    /\ professors = {}
    /\ reviews = {}
    /\ collected = <<>>
    /\ Idle

----------------------------------------------------------------------------
(* ProfessorsController.findAll / ProfessorsService.findAll *)

\* The ValidationPipe rejects an invalid query; otherwise findAll runs up to
\* its first await: the where and the offset are built
FindAllStart(d) ==
    /\ pc = "idle"
    /\ dto' = d
    /\ IF ValidDto(d)
       THEN /\ where' = BuildWhere(d)
            /\ skip' = Skip(d)
            /\ pc' = "count"
            /\ UNCHANGED response
       ELSE /\ response' = [kind |-> "BadRequest"]
            /\ pc' = "done"
            /\ UNCHANGED <<where, skip>>
    /\ UNCHANGED <<professors, reviews, total, countWhere, fetchWhere,
                   countStore, fetchStore, collected>>

\* the count issued without the where of the request
CountStepNoWhere ==
    /\ pc = "count"
    /\ total' = Cardinality(Matching(professors, BuildWhere([dto EXCEPT
                     !.minRating = <<>>, !.maxRating = <<>>])))
    /\ countWhere' = BuildWhere([dto EXCEPT !.minRating = <<>>, !.maxRating = <<>>])
    /\ countStore' = professors
    /\ pc' = "fetch"
    /\ UNCHANGED <<professors, reviews, dto, where, skip, response,
                   fetchWhere, fetchStore, collected>>

\* const total = await this.prisma.professor.count({ where })
CountStep ==
    /\ pc = "count"
    /\ total' = Cardinality(Matching(professors, where))
    /\ countWhere' = where
    /\ countStore' = professors
    /\ pc' = "fetch"
    /\ UNCHANGED <<professors, reviews, dto, where, skip, response,
                   fetchWhere, fetchStore, collected>>

\* meta.total and lastPage taken from the rows of the store at the fetch
\* instead of the count made before it
FetchStepRecount ==
    /\ pc = "fetch"
    /\ \E s \in OrderedByRatingDesc(Matching(professors, where)) :
          LET rows == Window(s, skip, ParsedLimit(dto))
          IN response' =
                [kind |-> "page",
                 data |-> [i \in 1..Len(rows) |-> mapToProfessorResponse(rows[i])],
                 meta |-> [total |-> Len(s),
                           page |-> ParsedPage(dto),
                           lastPage |-> LastPage(Len(s), ParsedLimit(dto)),
                           limit |-> ParsedLimit(dto)]]
    /\ fetchWhere' = where
    /\ fetchStore' = professors
    /\ pc' = "done"
    /\ UNCHANGED <<professors, reviews, dto, where, skip, total,
                   countWhere, countStore, collected>>

\* const professors = await this.prisma.professor.findMany({ where, skip,
\* take, orderBy }), then the projection and the meta block
FetchStep ==
    /\ pc = "fetch"
    /\ \E s \in OrderedByRatingDesc(Matching(professors, where)) :
          LET rows == Window(s, skip, ParsedLimit(dto))
          IN response' =
                [kind |-> "page",
                 data |-> [i \in 1..Len(rows) |-> mapToProfessorResponse(rows[i])],
                 meta |-> [total |-> total,
                           page |-> ParsedPage(dto),
                           lastPage |-> LastPage(total, ParsedLimit(dto)),
                           limit |-> ParsedLimit(dto)]]
    /\ fetchWhere' = where
    /\ fetchStore' = professors
    /\ pc' = "done"
    /\ UNCHANGED <<professors, reviews, dto, where, skip, total,
                   countWhere, countStore, collected>>

----------------------------------------------------------------------------
(* ProfessorsController.findOne / ProfessorsService.findOne *)

\* ParseIntPipe hands over an integer id; findOne runs up to its await
FindOneStart(id) ==
    /\ pc = "idle"
    /\ dto' = <<id>>
    /\ pc' = "lookup"
    /\ UNCHANGED <<professors, reviews, where, skip, total, response,
                   countWhere, fetchWhere, countStore, fetchStore, collected>>

\* the professor joined to its visible reviews: without one, no row
LookupStepInnerJoin ==
    /\ pc = "lookup"
    /\ IF \E p \in professors : p.id = dto[1] /\ VisibleReviews(reviews, p.id) # {}
       THEN \E p \in professors :
               /\ p.id = dto[1]
               /\ \E revs \in OrderedByCreatedAtDesc(VisibleReviews(reviews, p.id)) :
                     response' = [kind |-> "detail",
                                  detail |-> mapToProfessorDetailResponse(p, revs)]
       ELSE response' = [kind |-> "NotFound", id |-> dto[1]]
    /\ fetchStore' = professors
    /\ pc' = "done"
    /\ UNCHANGED <<professors, reviews, dto, where, skip, total,
                   countWhere, fetchWhere, countStore, collected>>

\* await this.prisma.professor.findUnique({ where: { id }, include }), then
\* the NotFoundException or the projection
LookupStep ==
    /\ pc = "lookup"
    /\ IF \E p \in professors : p.id = dto[1]
       THEN \E p \in professors :
               /\ p.id = dto[1]
               /\ \E revs \in OrderedByCreatedAtDesc(VisibleReviews(reviews, p.id)) :
                     response' = [kind |-> "detail",
                                  detail |-> mapToProfessorDetailResponse(p, revs)]
       ELSE response' = [kind |-> "NotFound", id |-> dto[1]]
    /\ fetchStore' = professors
    /\ pc' = "done"
    /\ UNCHANGED <<professors, reviews, dto, where, skip, total,
                   countWhere, fetchWhere, countStore, collected>>

\* The response leaves the process; the request's locals are gone
Reply ==
    /\ pc = "done"
    /\ pc' = "idle"
    /\ dto' = <<>>
    /\ where' = NoWhere
    /\ skip' = 0
    /\ total' = 0
    /\ response' = NoResponse
    /\ countWhere' = NoWhere
    /\ fetchWhere' = NoWhere
    /\ countStore' = NoTable
    /\ fetchStore' = NoTable
    /\ UNCHANGED <<professors, reviews, collected>>

----------------------------------------------------------------------------
(* Writers outside this service: the write path and the aggregation job *)

InsertProfessor(p) ==
    /\ \A q \in professors : q.id # p.id
    /\ professors' = professors \cup {p}
    /\ UNCHANGED <<reviews, pc, dto, where, skip, total, response,
                   countWhere, fetchWhere, countStore, fetchStore, collected>>

\* a professor goes with the reviews it owns
DeleteProfessor(id) ==
    /\ \E q \in professors : q.id = id
    /\ professors' = {q \in professors : q.id # id}
    /\ reviews' = {r \in reviews : r.professorId # id}
    /\ UNCHANGED <<pc, dto, where, skip, total, response,
                   countWhere, fetchWhere, countStore, fetchStore, collected>>

\* the aggregation job rewrites averageRating and reviewCount
ReRate(id, rating, count) ==
    /\ \E q \in professors :
          /\ q.id = id
          /\ <<q.averageRating, q.reviewCount>> # <<rating, count>>
          /\ professors' = (professors \ {q}) \cup
                 {[q EXCEPT !.averageRating = rating, !.reviewCount = count]}
    /\ UNCHANGED <<reviews, pc, dto, where, skip, total, response,
                   countWhere, fetchWhere, countStore, fetchStore, collected>>

InsertReview(r) ==
    /\ \A q \in reviews : q.id # r.id
    /\ \E p \in professors : p.id = r.professorId
    /\ reviews' = reviews \cup {r}
    /\ UNCHANGED <<professors, pc, dto, where, skip, total, response,
                   countWhere, fetchWhere, countStore, fetchStore, collected>>

\* moderation changes a review's visibilityStatus
SetVisibility(id, status) ==
    /\ \E q \in reviews :
          /\ q.id = id
          /\ q.visibilityStatus # status
          /\ reviews' = (reviews \ {q}) \cup {[q EXCEPT !.visibilityStatus = status]}
    /\ UNCHANGED <<professors, pc, dto, where, skip, total, response,
                   countWhere, fetchWhere, countStore, fetchStore, collected>>

DeleteReview(id) ==
    /\ \E q \in reviews : q.id = id
    /\ reviews' = {q \in reviews : q.id # id}
    /\ UNCHANGED <<professors, pc, dto, where, skip, total, response,
                   countWhere, fetchWhere, countStore, fetchStore, collected>>

----------------------------------------------------------------------------
(* List requests with the writers running beside them.  A write after the *)
(* response is built cannot change it, so the writers wait for Reply.     *)

Undefined == {<<>>}

PageProfessors ==
    {Professor(id, Garcia, r, 0, {}, {}) : id \in ProfIds, r \in {3, 5}}

PageDtos ==
    {SearchProfessorDto(<<>>, <<>>, <<>>, <<>>, minR, <<>>, <<>>, pg, lim) :
        minR \in Undefined \cup {<<5>>},
        pg \in Undefined \cup {<<0>>, <<1>>, <<2>>, <<3>>},
        lim \in Undefined \cup {<<0>>, <<1>>, <<2>>, <<100>>, <<101>>}}

Next ==
    \/ \E d \in PageDtos : FindAllStart(d)
    \/ CountStep
    \/ FetchStep
    \/ Reply
    \/ pc # "done" /\ \E p \in PageProfessors : InsertProfessor(p)
    \/ pc # "done" /\ \E id \in ProfIds : DeleteProfessor(id)
    \/ pc # "done" /\ \E id \in ProfIds, r \in {3, 5} : ReRate(id, r, 0)

Spec == Init /\ [][Next]_vars

PageDone == pc = "done" /\ response.kind = "page"

\* the ids of data, in order
DataIds == [i \in 1..Len(response.data) |-> response.data[i].id]

\* C4: for limit in 1..100 and every total, meta.lastPage is the least
\* number of pages of size limit that hold total rows (ceil(total/limit)),
\* 0 when total = 0; meta.total is the count, meta.page and meta.limit are
\* the request's values, 1 and 20 when the request leaves them out.
C4_LastPageAndMeta ==
    PageDone =>
        LET m == response.meta
        IN /\ m.limit >= 1 /\ m.limit <= 100
           /\ m.total = total
           /\ m.total = Cardinality(Matching(countStore, where))
           /\ m.page = (IF dto.page = <<>> THEN 1 ELSE dto.page[1])
           /\ m.limit = (IF dto.limit = <<>> THEN 20 ELSE dto.limit[1])
           /\ m.total = 0 => m.lastPage = 0
           /\ m.total > 0 =>
                 /\ m.lastPage * m.limit >= m.total
                 /\ (m.lastPage - 1) * m.limit < m.total

\* a request without page and limit over a store with one match: total = 1
\* is no multiple of the default limit, and lastPage is rounded up to 1
C4_Witness ==
    /\ PageDone
    /\ dto.page = <<>> /\ dto.limit = <<>>
    /\ response.meta.total = 1
    /\ response.meta.lastPage = 1
    /\ response.meta.limit = 20

\* what C5 says of the offset, the page length and the absence of errors
C5_OffsetAndLength ==
    /\ pc \in {"count", "fetch"} =>
          skip = ((IF dto.page = <<>> THEN 1 ELSE dto.page[1]) - 1)
                 * (IF dto.limit = <<>> THEN 20 ELSE dto.limit[1])
    /\ pc = "done" =>
          \/ response.kind = "page"
          \/ response.kind = "BadRequest" /\ ~ValidDto(dto)
    /\ PageDone =>
          LET m == response.meta
              n == Cardinality(Matching(fetchStore, where))
              rest == IF n > skip THEN n - skip ELSE 0
          IN /\ skip = (m.page - 1) * m.limit
             /\ Len(response.data) <= m.limit
             /\ Len(response.data) = (IF rest < m.limit THEN rest ELSE m.limit)

\* meta.total and meta.lastPage are those of the count, whatever the page
C5_MetaUnchanged ==
    PageDone =>
        LET m == response.meta
            n == Cardinality(Matching(countStore, where))
        IN /\ m.total = n
           /\ m.lastPage * m.limit >= n
           /\ n > 0 => (m.lastPage - 1) * m.limit < n

\* C5 as stated: for page >= 1 and limit in 1..100 the fetch uses offset
\* (page-1)*limit, data holds at most limit entries, no valid request ends
\* in an error, and a page beyond lastPage yields empty data with the
\* meta.total and meta.lastPage of the count.
C5_Original ==
    /\ C5_OffsetAndLength
    /\ C5_MetaUnchanged
    /\ PageDone /\ response.meta.page > response.meta.lastPage =>
          response.data = <<>>

\* C5 amended: as C5, but a page beyond lastPage is certain to be empty only
\* when the store was not written between the count and the fetch.
C5_Amended ==
    /\ C5_OffsetAndLength
    /\ C5_MetaUnchanged
    /\ PageDone /\ response.meta.page > response.meta.lastPage
                /\ countStore = fetchStore =>
          response.data = <<>>

\* page 3 of a two-row result with limit 1: beyond lastPage = 2, data empty
C5_Witness ==
    /\ PageDone
    /\ countStore = fetchStore
    /\ response.meta.page = 3
    /\ response.meta.limit = 1
    /\ response.meta.total = 2
    /\ response.meta.lastPage = 2
    /\ response.data = <<>>

\* the page length that total rows leave from the offset on
PageLength(n, sk, lim) ==
    IF n <= sk THEN 0 ELSE IF n - sk < lim THEN n - sk ELSE lim

\* data holds distinct rows of table that satisfy w, by averageRating
\* descending
DataFrom(table, w) ==
    /\ \A i \in 1..Len(response.data) :
          \E p \in table : Matches(p, w) /\ mapToProfessorResponse(p) = response.data[i]
    /\ \A i, j \in 1..Len(response.data) :
          /\ i # j => response.data[i].id # response.data[j].id
          /\ i < j => response.data[i].averageRating >= response.data[j].averageRating

\* C2: the count and the fetch receive the same predicate, the one built
\* from the request, and meta.total is the number of professors satisfying
\* that predicate in the store the count read, whatever page and limit are;
\* every entry of data satisfies it too.
C2_SamePredicate ==
    PageDone =>
        /\ countWhere = fetchWhere
        /\ fetchWhere = where
        /\ response.meta.total =
               Cardinality({p \in countStore : Matches(p, fetchWhere)})
        /\ DataFrom(fetchStore, fetchWhere)

\* minRating = 5 over a store of two professors of which one qualifies, page
\* 2 with limit 1: total is 1 although the page is empty
C2_Witness ==
    /\ PageDone
    /\ dto.minRating = <<5>>
    /\ dto.page = <<2>> /\ dto.limit = <<1>>
    /\ Cardinality(countStore) = 2
    /\ response.meta.total = 1
    /\ response.data = <<>>

\* C3 as stated: total, lastPage and data come from one state of the store,
\* so data holds exactly the rows that total leaves from the offset on, and
\* never more rows than total.
C3_Original ==
    PageDone =>
        /\ Len(response.data) <= response.meta.total
        /\ Len(response.data) =
               PageLength(response.meta.total, skip, response.meta.limit)

\* C3 amended: meta.total and meta.lastPage come from the state of the store
\* at the count read, data from its state at the fetch read; the two agree
\* with one snapshot when no write changed the store between the two reads.
C3_Amended ==
    PageDone =>
        LET m == response.meta
            n == Cardinality(Matching(countStore, where))
            k == Cardinality(Matching(fetchStore, where))
        IN /\ m.total = n
           /\ m.lastPage * m.limit >= n
           /\ IF n = 0 THEN m.lastPage = 0 ELSE (m.lastPage - 1) * m.limit < n
           /\ DataFrom(fetchStore, where)
           /\ Len(response.data) = PageLength(k, skip, m.limit)
           /\ countStore = fetchStore =>
                 Len(response.data) = PageLength(m.total, skip, m.limit)

\* a professor inserted between the count and the fetch: data holds a row
\* more than total reports
C3_Witness ==
    /\ PageDone
    /\ countStore # fetchStore
    /\ response.meta.total = 1
    /\ Len(response.data) = 2

----------------------------------------------------------------------------
(* The relation filters.  The fetch reads the store in one step and the    *)
(* where is fixed before it, so the writers run between requests here.     *)

RelationProfessors ==
    {Professor(id, Garcia, 3, 0, unis, facs) :
        id \in ProfIds, unis \in SUBSET UniversityIds, facs \in SUBSET FacultyIds}

RelationDtos ==
    {SearchProfessorDto(<<>>, u, f, dep, <<>>, <<>>, <<>>, <<>>, <<>>) :
        u \in Undefined \cup {<<0>>, <<1>>, <<2>>},
        f \in Undefined \cup {<<0>>, <<1>>},
        dep \in Undefined \cup {<< <<>> >>, << <<"p", "h">> >>, << <<"M", "A", "T">> >>}}

NextRelations ==
    \/ \E d \in RelationDtos : FindAllStart(d)
    \/ CountStep
    \/ FetchStep
    \/ Reply
    \/ pc = "idle" /\ \E p \in RelationProfessors : InsertProfessor(p)
    \/ pc = "idle" /\ \E id \in ProfIds : DeleteProfessor(id)

SpecRelations == Init /\ [][NextRelations]_vars

\* one join record of p is university u with a department containing dep
SingleRowMatch(p, u, dep) ==
    \E j \in p.universities :
        j = u /\ ContainsInsensitive(UniversityDepartment(j), dep)

\* C1: with universityId = U and department = D both supplied (U # 0, D
\* not empty), every professor in data has one Professor-University join
\* record with university id U whose department contains D ignoring case,
\* and meta.total counts exactly the professors that have such a record.
C1_SingleJoinRow ==
    PageDone /\ TruthyNumber(dto.universityId) /\ TruthyString(dto.department) =>
        /\ \A i \in 1..Len(response.data) :
              SingleRowMatch(response.data[i], dto.universityId[1], dto.department[1])
        /\ response.meta.total =
              Cardinality({p \in countStore :
                  SingleRowMatch(p, dto.universityId[1], dto.department[1])})

\* C8: a supplied universityId, 0 included, leaves in data only professors
\* with a Professor-University join record of that id, and a supplied
\* facultyId only professors with a Professor-Faculty join record of that
\* id (taken here for requests without a department, which C1 covers).
C8_SuppliedIdConstrains ==
    PageDone /\ dto.department = <<>> =>
        /\ dto.universityId # <<>> =>
              \A i \in 1..Len(response.data) :
                  dto.universityId[1] \in response.data[i].universities
        /\ dto.facultyId # <<>> =>
              \A i \in 1..Len(response.data) :
                  dto.facultyId[1] \in response.data[i].faculties

----------------------------------------------------------------------------
(* The rating and review-count filters, writers between requests *)

RatingProfessors ==
    {Professor(id, Garcia, r, c, {}, {}) :
        id \in ProfIds, r \in {0, 3, 5}, c \in {0, 2}}

RatingDtos ==
    {SearchProfessorDto(<<>>, <<>>, <<>>, <<>>, minR, maxR, minRev, <<>>, <<>>) :
        minR \in Undefined \cup {<<0>>, <<3>>, <<5>>},
        maxR \in Undefined \cup {<<0>>, <<3>>, <<5>>},
        minRev \in Undefined \cup {<<0>>, <<2>>}}

NextRatings ==
    \/ \E d \in RatingDtos : FindAllStart(d)
    \/ CountStep
    \/ FetchStep
    \/ Reply
    \/ pc = "idle" /\ \E p \in RatingProfessors : InsertProfessor(p)
    \/ pc = "idle" /\ \E id \in ProfIds : DeleteProfessor(id)
    \/ pc = "idle" /\ \E id \in ProfIds, r \in {0, 3, 5}, c \in {0, 2} : ReRate(id, r, c)

SpecRatings == Init /\ [][NextRatings]_vars

\* p is within every bound the request supplies
WithinBounds(p, d) ==
    /\ d.minRating # <<>> => p.averageRating >= d.minRating[1]
    /\ d.maxRating # <<>> => p.averageRating <= d.maxRating[1]
    /\ d.minReviews # <<>> => p.reviewCount >= d.minReviews[1]

\* C9: every professor in data satisfies averageRating >= minRating,
\* averageRating <= maxRating and reviewCount >= minReviews for each bound
\* the request supplies (0 included), data and meta.total leave out no
\* professor that satisfies them, and minRating > maxRating gives data = [],
\* total = 0 and lastPage = 0.
C9_RatingBounds ==
    PageDone =>
        /\ \A i \in 1..Len(response.data) : WithinBounds(response.data[i], dto)
        /\ response.meta.total = Cardinality({p \in countStore : WithinBounds(p, dto)})
        /\ Len(response.data) = response.meta.total
        /\ dto.minRating # <<>> /\ dto.maxRating # <<>>
              /\ dto.minRating[1] > dto.maxRating[1] =>
              /\ response.data = <<>>
              /\ response.meta.total = 0
              /\ response.meta.lastPage = 0

\* maxRating = 0 alone over professors rated 0 and 3: only the one rated 0
C9_Witness ==
    /\ PageDone
    /\ dto.maxRating = <<0>> /\ dto.minRating = <<>>
    /\ \E p \in fetchStore : p.averageRating = 3
    /\ Len(response.data) = 1
    /\ response.data[1].averageRating = 0

----------------------------------------------------------------------------
(* A client that pages through one result over a store nobody writes *)

WalkDtos ==
    {SearchProfessorDto(<<>>, <<>>, <<>>, <<>>, minR, <<>>, <<>>, <<pg>>, lim) :
        minR \in Undefined \cup {<<5>>},
        pg \in 1..MaxProf,
        lim \in {<<1>>, <<2>>}}

\* the client has every page from 1 to lastPage
WalkComplete ==
    /\ collected # <<>>
    /\ Len(collected) >= collected[1].response.meta.lastPage

\* the next page of the same criteria and limit
ClientRequest(d) ==
    /\ ~WalkComplete
    /\ d.page = <<Len(collected) + 1>>
    /\ collected # <<>> => [d EXCEPT !.page = <<1>>] = collected[1].request
    /\ FindAllStart(d)

ClientReceive ==
    /\ pc = "done"
    /\ collected' = Append(collected, [request |-> dto, response |-> response])
    /\ pc' = "idle"
    /\ dto' = <<>>
    /\ where' = NoWhere
    /\ skip' = 0
    /\ total' = 0
    /\ response' = NoResponse
    /\ countWhere' = NoWhere
    /\ fetchWhere' = NoWhere
    /\ countStore' = NoTable
    /\ fetchStore' = NoTable
    /\ UNCHANGED <<professors, reviews>>

InitPages ==
    /\ professors \in {t \in SUBSET PageProfessors :
                          \A p, q \in t : p.id = q.id => p = q}
    /\ reviews = {}
    /\ collected = <<>>
    /\ Idle

NextPages ==
    \/ \E d \in WalkDtos : ClientRequest(d)
    \/ CountStep
    \/ FetchStep
    \/ ClientReceive

SpecPages == InitPages /\ [][NextPages]_vars

RECURSIVE Pages(_)
\* the data of the first n responses, concatenated
Pages(n) ==
    IF n = 0 THEN <<>> ELSE Pages(n - 1) \o collected[n].response.data

AllPages == Pages(Len(collected))

WalkMatching == Matching(professors, BuildWhere(collected[1].request))

NonIncreasing(s) ==
    \A i, j \in 1..Len(s) : i < j => s[i].averageRating >= s[j].averageRating

ExactlyOnce(s, rows) ==
    \A p \in rows : Cardinality({i \in 1..Len(s) : s[i].id = p.id}) = 1

\* C10 as stated: pages 1..lastPage of one criteria set and limit over an
\* unchanging store hold every matching professor exactly once, in
\* non-increasing averageRating order, whatever order the store gives to
\* professors of equal averageRating on each fetch.
C10_Original ==
    pc = "idle" /\ WalkComplete =>
        /\ ExactlyOnce(AllPages, WalkMatching)
        /\ NonIncreasing(AllPages)

\* C10 amended: the pages hold as many entries as there are matching
\* professors, in non-increasing averageRating order, and every matching
\* professor exactly once when no two of them have the same averageRating.
C10_Amended ==
    pc = "idle" /\ WalkComplete =>
        /\ Len(AllPages) = Cardinality(WalkMatching)
        /\ \A i \in 1..Len(AllPages) :
              \E p \in WalkMatching : mapToProfessorResponse(p) = AllPages[i]
        /\ NonIncreasing(AllPages)
        /\ (\A p, q \in WalkMatching : p # q => p.averageRating # q.averageRating)
              => ExactlyOnce(AllPages, WalkMatching)

\* two pages of one row each, rated 5 and then 3
C10_Witness ==
    /\ pc = "idle" /\ WalkComplete
    /\ Len(collected) = 2
    /\ Len(AllPages) = 2
    /\ AllPages[1].averageRating = 5
    /\ AllPages[2].averageRating = 3

----------------------------------------------------------------------------
(* Detail lookups with the writers running beside them *)

Statuses == {"visible", "hidden"}

DetailProfessors == {Professor(id, Garcia, 3, 0, {}, {}) : id \in ProfIds}

Reviews ==
    [id : ReviewIds, professorId : ProfIds,
     visibilityStatus : Statuses, createdAt : {1, 2}]

NextDetail ==
    \/ \E id \in 0..(MaxProf + 1) : FindOneStart(id)
    \/ LookupStep
    \/ Reply
    \/ pc # "done" /\ \E p \in DetailProfessors : InsertProfessor(p)
    \/ pc # "done" /\ \E id \in ProfIds : DeleteProfessor(id)
    \/ pc # "done" /\ \E r \in Reviews : InsertReview(r)
    \/ pc # "done" /\ \E id \in ReviewIds, st \in Statuses : SetVisibility(id, st)
    \/ pc # "done" /\ \E id \in ReviewIds : DeleteReview(id)

SpecDetail == Init /\ [][NextDetail]_vars

DetailDone == pc = "done" /\ response.kind = "detail"

\* C6: the reviews of a detail response are exactly the reviews of the
\* professor looked up whose visibilityStatus is 'visible', each once, by
\* createdAt descending.
C6_VisibleReviews ==
    DetailDone =>
        LET revs == response.detail.reviews
        IN /\ {revs[i].id : i \in 1..Len(revs)} =
                 {r.id : r \in {q \in reviews : /\ q.professorId = dto[1]
                                                /\ q.visibilityStatus = "visible"}}
           /\ \A i, j \in 1..Len(revs) : i # j => revs[i].id # revs[j].id
           /\ \A i \in 1..Len(revs) :
                 \E r \in reviews : r.id = revs[i].id /\ r.createdAt = revs[i].createdAt
           /\ \A i, j \in 1..Len(revs) : i < j => revs[i].createdAt >= revs[j].createdAt

\* a professor with a visible review of createdAt 2 and a hidden one of
\* createdAt 1: the detail holds the visible one alone
C6_Witness ==
    /\ DetailDone
    /\ \E r \in reviews : /\ r.professorId = dto[1]
                          /\ r.visibilityStatus = "hidden" /\ r.createdAt = 1
    /\ Len(response.detail.reviews) = 1
    /\ response.detail.reviews[1].createdAt = 2

\* the outcome of a lookup, against the table findUnique read
C7_Outcome ==
    pc = "done" =>
        /\ response.kind \in {"NotFound", "detail"}
        /\ response.kind = "NotFound" <=> ~(\E p \in fetchStore : p.id = dto[1])
        /\ response.kind = "detail" =>
              /\ response.detail.id = dto[1]
              /\ \E p \in fetchStore :
                    /\ p.id = dto[1]
                    /\ p.fullName = response.detail.fullName
                    /\ p.averageRating = response.detail.averageRating
                    /\ p.reviewCount = response.detail.reviewCount

\* a step of findOne: up to the await, or from the await to the outcome
FindOneSteps ==
    \/ pc = "idle" /\ pc' = "lookup"
    \/ pc = "lookup" /\ pc' = "done"

\* C7: findOne(id) fails with NotFound exactly when the store holds no
\* professor of that id, returns the detail of that professor otherwise
\* (also one without visible reviews), and leaves the store as it is.
C7_NotFoundIffAbsent ==
    /\ []C7_Outcome
    /\ [][FindOneSteps => professors' = professors /\ reviews' = reviews]_vars

\* a professor whose only review is hidden is found, with no reviews
C7_Witness ==
    /\ DetailDone
    /\ response.detail.id = dto[1]
    /\ response.detail.reviews = <<>>
    /\ \E r \in reviews : r.professorId = dto[1] /\ r.visibilityStatus = "hidden"

====
